---- MODULE Spec2Model ----
(***************************************************************************)
(* Dialogs::Stories::List (dialogs/ui/dialogs_stories_list.cpp): the       *)
(* stories strip of the chats list.  The model covers the item store       *)
(* (showContent), the scroll model (updateScrollMax, wheelEvent,           *)
(* checkDragging, checkLoadMore), the expansion state machine              *)
(* (setExpandedHeight, checkForFullState, updateExpanding,                 *)
(* requestExpanded), the layout (computeLayout) and the pointer handlers   *)
(* with hit-testing (updateSelected).                                      *)
(*                                                                         *)
(* Numbers.  Pixel quantities are integers as in the code.  The float64    *)
(* ratios are kept as exact fractions: _lastRatio is the numerator over    *)
(* the fixed denominator _st.full.height, an animation value is a step     *)
(* 0..AnimSteps over AnimSteps, and Layout::ratio is RatioNum over         *)
(* RatioDen.  kExpandAfterRatio, kCollapseAfterRatio and kFrictionRatio    *)
(* are kept in hundredths.                                                 *)
(*                                                                         *)
(* Every handler is an operator from the widget's fields (a record s) to   *)
(* the fields after the handler, composed exactly as the handlers call     *)
(* each other; an action commits the record to the variables.  The field   *)
(* fired collects what the last handler emitted on the event streams.      *)
(***************************************************************************)
EXTENDS Integers, Sequences, FiniteSets, TLC

\* ---------------------------------------------------------------- style
\* style::DialogsStoriesList values (_st.full.*, _st.small.*), scaled down.
FullLeft == 1
FullPhotoLeft == 1
FullPhoto == 2
FullHeight == 100
SmallLeft == 1
SmallPhotoLeft == 1
SmallPhoto == 2
SmallShift == 1
FullClickable == FALSE
RightToLeft == FALSE
StartDragDistance == 2

\* ---------------------------------------------------------------- constants
kSmallThumbsShown == 3
kPreloadPages == 2
kExpandAfterRatio == 72
kCollapseAfterRatio == 68
kFrictionRatio == 15

\* An animation value v in [0, 1] is the step v * AnimSteps.
AnimSteps == 2

\* ---------------------------------------------------------------- helpers
Max(a, b) == IF a >= b THEN a ELSE b
Min(a, b) == IF a <= b THEN a ELSE b
Clamp(v, lo, hi) == IF v < lo THEN lo ELSE IF hi < v THEN hi ELSE v
\* C++ integer division truncates towards zero.
TruncDiv(a, b) == IF a >= 0 THEN a \div b ELSE -((-a) \div b)

States == {"Small", "Changing", "Full"}

VARIABLES
    content,                \* _content.elements
    items,                  \* _data.items
    empty,                  \* _empty
    width,                  \* QWidget::width()
    geometryFull,           \* _geometryFull.width()
    scrollLeft,             \* _scrollLeft
    scrollLeftMax,          \* _scrollLeftMax
    state,                  \* _state
    expanded,               \* _expanded
    lastRatio,              \* _lastRatio * FullHeight
    lastExpandedHeight,     \* _lastExpandedHeight
    expandIgnored,          \* _expandIgnored
    expandedAnimation,      \* _expandedAnimation
    expandCatchUpAnimation, \* _expandCatchUpAnimation
    selected,               \* _selected
    pressed,                \* _pressed
    dragging,               \* _dragging
    startDraggingLeft,      \* _startDraggingLeft
    mouseDownPosition,      \* _mouseDownPosition 
    lastMousePosition,      \* _lastMousePosition (x)
    fired,                  \* events emitted by the last handler
    delivered,              \* history: <<the snapshot last given to
                            \* showContent>>, <<>> before the first one
    fullClickable,          \* _st.fullClickable, fixed at construction
    menu                    \* _menu is not null

vars == <<content, items, empty, width, geometryFull, scrollLeft,
          scrollLeftMax, state, expanded, lastRatio, lastExpandedHeight,
          expandIgnored, expandedAnimation, expandCatchUpAnimation, selected,
          pressed, dragging, startDraggingLeft, mouseDownPosition,
          lastMousePosition, fired, delivered, fullClickable, menu>>

\* std::optional<QPoint>: <<>> for nullopt, <<x>> for a position.
NoPosition == <<>>

\* Nothing emitted yet by the running handler.
NoEvents ==
    [handler |-> "",
     loadMoreRequests |-> 0,
     toggleExpandedRequests |-> <<>>,
     clicks |-> <<>>,
     showMenuRequests |-> <<>>,
     updateGeometry |-> 0,
     update |-> FALSE,
     collapsedGeometryChanged |-> 0,
     ignored |-> FALSE]

\* The widget's fields when a handler starts.
Cur ==
    [content |-> content, items |-> items, empty |-> empty, width |-> width,
     geometryFull |-> geometryFull, scrollLeft |-> scrollLeft,
     scrollLeftMax |-> scrollLeftMax, state |-> state, expanded |-> expanded,
     lastRatio |-> lastRatio, lastExpandedHeight |-> lastExpandedHeight,
     expandIgnored |-> expandIgnored, expandedAnimation |-> expandedAnimation,
     expandCatchUpAnimation |-> expandCatchUpAnimation, selected |-> selected,
     pressed |-> pressed, dragging |-> dragging,
     startDraggingLeft |-> startDraggingLeft,
     mouseDownPosition |-> mouseDownPosition,
     lastMousePosition |-> lastMousePosition,
     fullClickable |-> fullClickable, menu |-> menu, fired |-> NoEvents]

\* The fields when the handler returns.
Commit(handler, t) ==
    /\ content' = t.content
    /\ items' = t.items
    /\ empty' = t.empty
    /\ width' = t.width
    /\ geometryFull' = t.geometryFull
    /\ scrollLeft' = t.scrollLeft
    /\ scrollLeftMax' = t.scrollLeftMax
    /\ state' = t.state
    /\ expanded' = t.expanded
    /\ lastRatio' = t.lastRatio
    /\ lastExpandedHeight' = t.lastExpandedHeight
    /\ expandIgnored' = t.expandIgnored
    /\ expandedAnimation' = t.expandedAnimation
    /\ expandCatchUpAnimation' = t.expandCatchUpAnimation
    /\ selected' = t.selected
    /\ pressed' = t.pressed
    /\ dragging' = t.dragging
    /\ startDraggingLeft' = t.startDraggingLeft
    /\ mouseDownPosition' = t.mouseDownPosition
    /\ lastMousePosition' = t.lastMousePosition
    /\ fullClickable' = t.fullClickable
    /\ menu' = t.menu
    /\ fired' = [t.fired EXCEPT !.handler = handler]

\* ---------------------------------------------------------------- animations
\* Ui::Animations::Simple: value(final) is the running value while animating
\* and final otherwise; start() keeps the running value when restarted.
NotAnimating == [animating |-> FALSE, value |-> 0]
AnimValue(a, final) == IF a.animating THEN a.value ELSE final
AnimStart(a, from) == [animating |-> TRUE, value |-> AnimValue(a, from)]

\* ---------------------------------------------------------------- events
\* QWidget::update(): a repaint was requested.
Update(s) == [s EXCEPT !.fired.update = TRUE]
FireLoadMore(s) == [s EXCEPT !.fired.loadMoreRequests = @ + 1]
FireToggleExpanded(s, e) ==
    [s EXCEPT !.fired.toggleExpandedRequests = Append(@, e)]
FireClick(s, id) == [s EXCEPT !.fired.clicks = Append(@, id)]
FireShowMenu(s, id) == [s EXCEPT !.fired.showMenuRequests = Append(@, id)]

\* ---------------------------------------------------------------- expansion
\* List::requestExpanded
requestExpanded(s, e) ==
    LET started ==
            [s EXCEPT !.expanded = e,
                      !.expandedAnimation =
                          AnimStart(@, IF e THEN 0 ELSE AnimSteps)]
    IN  FireToggleExpanded(IF s.expanded # e THEN started ELSE s, e)

\* updateExpanding with one threshold for both directions (no hysteresis).
updateExpandingOneThreshold(s, expandingHeight) ==
    LET ratio == expandingHeight
        expanding == ratio > s.lastRatio
        change == IF s.expanded
                  THEN ~expanding /\ ratio * 100 < kExpandAfterRatio * FullHeight
                  ELSE expanding /\ ratio * 100 > kExpandAfterRatio * FullHeight
        t == [s EXCEPT !.lastRatio = ratio]
    IN  IF s.lastRatio = ratio THEN s
        ELSE IF change THEN requestExpanded(t, ~t.expanded)
        ELSE t

\* List::updateExpanding(expandingHeight, _st.full.height): the ratio is
\* expandingHeight / FullHeight, compared in hundredths.
updateExpanding(s, expandingHeight) ==
    LET ratio == expandingHeight
        expanding == ratio > s.lastRatio
        change == IF s.expanded
                  THEN ~expanding /\ ratio * 100 < kCollapseAfterRatio * FullHeight
                  ELSE expanding /\ ratio * 100 > kExpandAfterRatio * FullHeight
        t == [s EXCEPT !.lastRatio = ratio]
    IN  IF s.lastRatio = ratio THEN s
        ELSE IF change THEN requestExpanded(t, ~t.expanded)
        ELSE t

\* ---------------------------------------------------------------- layout
\* Layout::ratio = RatioNum / RatioDen, for the blend value e / AnimSteps.
RatioDen == FullHeight * 100 * AnimSteps
RatioNum(s, e) ==
    s.lastRatio * (100 * e + kFrictionRatio * (AnimSteps - e))
\* lerp(a, b) * RatioDen
Lerp(a, b, num) == a * RatioDen + (b - a) * num

\* The layout with the compact window scrolling along with the full one.
computeLayoutConstSmallScrolls(s, e) ==
    LET num == RatioNum(s, e)
        widthFull == s.width
        itemsCount == Len(s.items)
        leftFullMin == FullLeft
        singleFullMin == FullPhotoLeft * 2 + FullPhoto
        totalFull == leftFullMin + singleFullMin * itemsCount
        skipSide == IF totalFull < widthFull
                    THEN TruncDiv(widthFull - totalFull, itemsCount + 1)
                    ELSE 0
        skipBetween == IF totalFull < widthFull /\ itemsCount > 1
                       THEN TruncDiv(widthFull - totalFull - 2 * skipSide,
                                     itemsCount - 1)
                       ELSE skipSide
        singleFull == singleFullMin + skipBetween
        smallSkip == IF itemsCount > 1 /\ s.items[1].element.skipSmall
                     THEN 1 ELSE 0
        smallCount == Min(kSmallThumbsShown, itemsCount - smallSkip)
        leftSmall == SmallLeft - (IF smallSkip = 1 THEN SmallShift ELSE 0)
        leftFull == FullLeft - s.scrollLeft + skipSide
        startIndexFull == TruncDiv(Max(-leftFull, 0), singleFull)
        cellLeftFull == leftFull + startIndexFull * singleFull
        endIndexFull ==
            Min(TruncDiv(s.width - leftFull + singleFull - 1, singleFull),
                itemsCount)
        startIndexSmall == startIndexFull
        endIndexSmall == smallSkip + smallCount
        cellLeftSmall == leftSmall + startIndexSmall * SmallShift
        thumbnailLeftFull == cellLeftFull + FullPhotoLeft
        thumbnailLeftSmall == cellLeftSmall + SmallPhotoLeft
        thumbnailLeft == Lerp(thumbnailLeftSmall, thumbnailLeftFull, num)
        photoLeft == Lerp(SmallPhotoLeft, FullPhotoLeft, num)
    IN  [itemsCount |-> itemsCount,
         expandedRatio |-> s.lastRatio,
         ratio |-> num,
         thumbnailLeft |-> thumbnailLeft,
         photoLeft |-> photoLeft,
         left |-> thumbnailLeft - photoLeft,
         single |-> Lerp(SmallShift, singleFull, num),
         smallSkip |-> smallSkip,
         leftFull |-> leftFull,
         leftSmall |-> leftSmall,
         singleFull |-> singleFull,
         singleSmall |-> SmallShift,
         startIndexSmall |-> startIndexSmall,
         endIndexSmall |-> endIndexSmall,
         startIndexFull |-> startIndexFull,
         endIndexFull |-> endIndexFull]

\* List::computeLayout(float64 expanded) const, expanded = e / AnimSteps.
\* geometryShift only offsets the painter and is left out.
computeLayoutConst(s, e) ==
    LET num == RatioNum(s, e)
        widthFull == s.width
        itemsCount == Len(s.items)
        leftFullMin == FullLeft
        singleFullMin == FullPhotoLeft * 2 + FullPhoto
        totalFull == leftFullMin + singleFullMin * itemsCount
        skipSide == IF totalFull < widthFull
                    THEN TruncDiv(widthFull - totalFull, itemsCount + 1)
                    ELSE 0
        skipBetween == IF totalFull < widthFull /\ itemsCount > 1
                       THEN TruncDiv(widthFull - totalFull - 2 * skipSide,
                                     itemsCount - 1)
                       ELSE skipSide
        singleFull == singleFullMin + skipBetween
        smallSkip == IF itemsCount > 1 /\ s.items[1].element.skipSmall
                     THEN 1 ELSE 0
        smallCount == Min(kSmallThumbsShown, itemsCount - smallSkip)
        leftSmall == SmallLeft - (IF smallSkip = 1 THEN SmallShift ELSE 0)
        leftFull == FullLeft - s.scrollLeft + skipSide
        startIndexFull == TruncDiv(Max(-leftFull, 0), singleFull)
        cellLeftFull == leftFull + startIndexFull * singleFull
        endIndexFull ==
            Min(TruncDiv(s.width - leftFull + singleFull - 1, singleFull),
                itemsCount)
        startIndexSmall == Min(startIndexFull, smallSkip)
        endIndexSmall == smallSkip + smallCount
        cellLeftSmall == leftSmall + startIndexSmall * SmallShift
        thumbnailLeftFull == cellLeftFull + FullPhotoLeft
        thumbnailLeftSmall == cellLeftSmall + SmallPhotoLeft
        thumbnailLeft == Lerp(thumbnailLeftSmall, thumbnailLeftFull, num)
        photoLeft == Lerp(SmallPhotoLeft, FullPhotoLeft, num)
    IN  [itemsCount |-> itemsCount,
         expandedRatio |-> s.lastRatio,
         ratio |-> num,
         thumbnailLeft |-> thumbnailLeft,
         photoLeft |-> photoLeft,
         left |-> thumbnailLeft - photoLeft,
         single |-> Lerp(SmallShift, singleFull, num),
         smallSkip |-> smallSkip,
         leftFull |-> leftFull,
         leftSmall |-> leftSmall,
         singleFull |-> singleFull,
         singleSmall |-> SmallShift,
         startIndexSmall |-> startIndexSmall,
         endIndexSmall |-> endIndexSmall,
         startIndexFull |-> startIndexFull,
         endIndexFull |-> endIndexFull]

\* List::computeLayout(): the fields after its updateExpanding call ...
computeLayoutFields(s) ==
    updateExpanding(s,
        TruncDiv(s.lastExpandedHeight
                    * AnimValue(s.expandCatchUpAnimation, AnimSteps),
                 AnimSteps))
\* ... and the layout it returns, computed on those fields.
computeLayout(s) ==
    LET t == computeLayoutFields(s)
    IN  computeLayoutConst(t,
            AnimValue(t.expandedAnimation,
                      IF t.expanded THEN AnimSteps ELSE 0))

\* checkLoadMore asking for more one viewport width before the end.
checkLoadMoreOnePage(s) ==
    IF s.scrollLeftMax - s.scrollLeft < s.width
    THEN FireLoadMore(s) ELSE s

\* ---------------------------------------------------------------- scroll
\* List::checkLoadMore
checkLoadMore(s) ==
    IF s.scrollLeftMax - s.scrollLeft < s.width * kPreloadPages
    THEN FireLoadMore(s) ELSE s

\* List::updateScrollMax
updateScrollMax(s) ==
    LET singleFull == FullPhotoLeft * 2 + FullPhoto
        widthFull == FullLeft + Len(s.items) * singleFull
        max == Max(widthFull - s.width, 0)
    IN  Update(checkLoadMore([s EXCEPT !.scrollLeftMax = max,
                                       !.scrollLeft = Clamp(@, 0, max)]))

\* List::resizeEvent
resizeEvent(s) == updateScrollMax(s)

\* ---------------------------------------------------------------- geometry
\* QWidget::setGeometry of a shown widget: a changed size is delivered
\* synchronously as a resize event.
setGeometry(s, w) ==
    IF w = s.width THEN s ELSE resizeEvent([s EXCEPT !.width = w])

\* List::countSmallGeometry().width()
countSmallGeometry(s) ==
    LET layout == computeLayoutConst(s, 0)
        count == layout.endIndexSmall
                    - Max(layout.startIndexSmall, layout.smallSkip)
    IN  SmallLeft + SmallPhotoLeft + SmallPhoto + (count - 1) * SmallShift
            + SmallPhotoLeft + SmallLeft

\* List::updateGeometry, with _positionSmall and _geometryFull both at x = 0
\* and left alignment, so that united() has the larger of the two widths.
updateGeometry(s) ==
    LET t == [s EXCEPT !.fired.updateGeometry = @ + 1]
    IN  Update(
            CASE s.state = "Small" -> setGeometry(t, countSmallGeometry(t))
              [] s.state = "Changing" ->
                    setGeometry(t, Max(t.geometryFull, countSmallGeometry(t)))
              [] OTHER -> setGeometry(t, t.geometryFull))

\* List::setState
setState(s, newState) ==
    IF s.state = newState THEN s
    ELSE updateGeometry([s EXCEPT !.state = newState])

\* checkForFullState not waiting for the expand/collapse animation.
checkForFullStateResultNoExpandedCheck(s) ==
    ~(\/ s.expandCatchUpAnimation.animating
      \/ s.lastExpandedHeight < FullHeight)

\* checkForFullState not comparing the accepted height with the capacity.
checkForFullStateResultAnyHeight(s) ==
    ~(\/ s.expandCatchUpAnimation.animating
      \/ s.expandedAnimation.animating)

\* List::checkForFullState: its result ...
checkForFullStateResult(s) ==
    ~(\/ s.expandCatchUpAnimation.animating
      \/ s.expandedAnimation.animating
      \/ s.lastExpandedHeight < FullHeight)
\* ... and its effect.
checkForFullState(s) ==
    IF checkForFullStateResult(s) THEN setState(s, "Full") ELSE s

\* setExpandedHeight setting Small or Changing without checkForFullState.
setExpandedHeightNoFullCheck(s, heightArg, momentum) ==
    LET height == Clamp(heightArg, 0, FullHeight)
        started == [s EXCEPT !.expandIgnored = FALSE,
                             !.expandCatchUpAnimation = AnimStart(@, 0)]
        stopped == [s EXCEPT !.expandCatchUpAnimation = NotAnimating]
        accept(t) ==
            Update(setState([t EXCEPT !.lastExpandedHeight = height],
                            IF height = 0 THEN "Small" ELSE "Changing"))
    IN  IF s.lastExpandedHeight = height THEN s
        ELSE IF momentum /\ s.expandIgnored THEN s
        ELSE IF momentum /\ height > 0 /\ s.lastExpandedHeight = 0
            THEN [s EXCEPT !.expandIgnored = TRUE]
        ELSE IF ~momentum /\ s.expandIgnored /\ height > 0 THEN accept(started)
        ELSE IF height = 0 /\ s.expandCatchUpAnimation.animating
            THEN accept(stopped)
        ELSE accept(s)

\* setExpandedHeight leaving the catch-up animation running at height 0.
setExpandedHeightKeepsCatchUp(s, heightArg, momentum) ==
    LET height == Clamp(heightArg, 0, FullHeight)
        started == [s EXCEPT !.expandIgnored = FALSE,
                             !.expandCatchUpAnimation = AnimStart(@, 0)]
        accept(t) ==
            LET u == [t EXCEPT !.lastExpandedHeight = height]
            IN  Update(
                    IF checkForFullStateResult(u) THEN checkForFullState(u)
                    ELSE setState(u, IF height = 0 THEN "Small"
                                     ELSE "Changing"))
    IN  IF s.lastExpandedHeight = height THEN s
        ELSE IF momentum /\ s.expandIgnored THEN s
        ELSE IF momentum /\ height > 0 /\ s.lastExpandedHeight = 0
            THEN [s EXCEPT !.expandIgnored = TRUE]
        ELSE IF ~momentum /\ s.expandIgnored /\ height > 0 THEN accept(started)
        ELSE accept(s)

\* setExpandedHeight accepting a momentum jump from height 0.
setExpandedHeightAcceptsMomentum(s, heightArg, momentum) ==
    LET height == Clamp(heightArg, 0, FullHeight)
        started == [s EXCEPT !.expandIgnored = FALSE,
                             !.expandCatchUpAnimation = AnimStart(@, 0)]
        stopped == [s EXCEPT !.expandCatchUpAnimation = NotAnimating]
        accept(t) ==
            LET u == [t EXCEPT !.lastExpandedHeight = height]
            IN  Update(
                    IF checkForFullStateResult(u) THEN checkForFullState(u)
                    ELSE setState(u, IF height = 0 THEN "Small"
                                     ELSE "Changing"))
    IN  IF s.lastExpandedHeight = height THEN s
        ELSE IF momentum /\ s.expandIgnored THEN s
        ELSE IF ~momentum /\ s.expandIgnored /\ height > 0 THEN accept(started)
        ELSE IF height = 0 /\ s.expandCatchUpAnimation.animating
            THEN accept(stopped)
        ELSE accept(s)

\* setExpandedHeight without the clamp of its argument.
setExpandedHeightUnclamped(s, heightArg, momentum) ==
    LET height == heightArg
        started == [s EXCEPT !.expandIgnored = FALSE,
                             !.expandCatchUpAnimation = AnimStart(@, 0)]
        stopped == [s EXCEPT !.expandCatchUpAnimation = NotAnimating]
        accept(t) ==
            LET u == [t EXCEPT !.lastExpandedHeight = height]
            IN  Update(
                    IF checkForFullStateResult(u) THEN checkForFullState(u)
                    ELSE setState(u, IF height = 0 THEN "Small"
                                     ELSE "Changing"))
    IN  IF s.lastExpandedHeight = height THEN s
        ELSE IF momentum /\ s.expandIgnored THEN s
        ELSE IF momentum /\ height > 0 /\ s.lastExpandedHeight = 0
            THEN [s EXCEPT !.expandIgnored = TRUE]
        ELSE IF ~momentum /\ s.expandIgnored /\ height > 0 THEN accept(started)
        ELSE IF height = 0 /\ s.expandCatchUpAnimation.animating
            THEN accept(stopped)
        ELSE accept(s)

\* List::setExpandedHeight
setExpandedHeight(s, heightArg, momentum) ==
    LET height == Clamp(heightArg, 0, FullHeight)
        started == [s EXCEPT !.expandIgnored = FALSE,
                             !.expandCatchUpAnimation = AnimStart(@, 0)]
        stopped == [s EXCEPT !.expandCatchUpAnimation = NotAnimating]
        accept(t) ==
            LET u == [t EXCEPT !.lastExpandedHeight = height]
            IN  Update(
                    IF checkForFullStateResult(u) THEN checkForFullState(u)
                    ELSE setState(u, IF height = 0 THEN "Small"
                                     ELSE "Changing"))
    IN  IF s.lastExpandedHeight = height THEN s
        ELSE IF momentum /\ s.expandIgnored THEN s
        ELSE IF momentum /\ height > 0 /\ s.lastExpandedHeight = 0
            THEN [s EXCEPT !.expandIgnored = TRUE]
        ELSE IF ~momentum /\ s.expandIgnored /\ height > 0 THEN accept(started)
        ELSE IF height = 0 /\ s.expandCatchUpAnimation.animating
            THEN accept(stopped)
        ELSE accept(s)

\* ---------------------------------------------------------------- items
\* Item{ .element = element }
NewItem(element) ==
    [element |-> element, subscribed |-> FALSE, nameCache |-> FALSE]

\* ranges::find(items, id, &Item::element.id): the first index, 0 when absent.
FindItem(list, id) ==
    IF \E i \in 1..Len(list) : list[i].element.id = id
    THEN CHOOSE i \in 1..Len(list) :
            /\ list[i].element.id = id
            /\ \A j \in 1..(i - 1) : list[j].element.id # id
    ELSE 0

\* MergeItem keeping the subscription when the thumbnail handle changed.
MergeItemKeepSubscribed(old, element) ==
    LET i == FindItem(old, element.id)
        item == old[i]
        nameChanged == item.element.name # element.name
    IN  IF i = 0 THEN NewItem(element)
        ELSE [element |->
                [item.element EXCEPT !.thumbnail = element.thumbnail,
                                     !.name = element.name,
                                     !.count = element.count,
                                     !.unreadCount = element.unreadCount],
              subscribed |-> item.subscribed,
              nameCache |-> IF nameChanged THEN FALSE ELSE item.nameCache]

\* The body of the loop of List::showContent for one element.
MergeItem(old, element) ==
    LET i == FindItem(old, element.id)
        item == old[i]
        thumbnailChanged == item.element.thumbnail # element.thumbnail
        nameChanged == item.element.name # element.name
    IN  IF i = 0 THEN NewItem(element)
        ELSE [element |->
                [item.element EXCEPT !.thumbnail = element.thumbnail,
                                     !.name = element.name,
                                     !.count = element.count,
                                     !.unreadCount = element.unreadCount],
              subscribed |-> IF thumbnailChanged THEN FALSE
                             ELSE item.subscribed,
              nameCache |-> IF nameChanged THEN FALSE ELSE item.nameCache]

\* showContent rebuilding the list from the snapshot on every call, with
\* neither the equality check nor the merge.
showContentRebuild(s, elements) ==
    LET wasCount == Len(s.items)
        rebuilt == [k \in 1..Len(elements) |-> NewItem(elements[k])]
        t == [s EXCEPT !.content = elements, !.items = rebuilt]
        u == IF Len(rebuilt) # wasCount THEN updateGeometry(t) ELSE t
        v == Update(updateScrollMax(u))
    IN  IF elements = <<>> THEN [s EXCEPT !.items = <<>>, !.empty = TRUE]
        ELSE IF wasCount = 0 THEN [v EXCEPT !.empty = FALSE]
        ELSE v

\* List::showContent; elements are the snapshot's elements (ids distinct).
showContent(s, elements) ==
    LET wasCount == Len(s.items)
        merged == [k \in 1..Len(elements) |-> MergeItem(s.items, elements[k])]
        t == [s EXCEPT !.content = elements, !.items = merged]
        u == IF Len(merged) # wasCount THEN updateGeometry(t) ELSE t
        v == Update(updateScrollMax(u))
    IN  IF s.content = elements THEN s
        ELSE IF elements = <<>> THEN [s EXCEPT !.items = <<>>, !.empty = TRUE]
        ELSE IF wasCount = 0 THEN [v EXCEPT !.empty = FALSE]
        ELSE v

\* The hit-test returning the index within the visible window.
selectedAtWindowIndex(layout, x, clickable) ==
    LET num == layout.ratio
        firstRightFull == layout.leftFull
            + (layout.startIndexFull + 1) * layout.singleFull
        secondLeftFull == firstRightFull
        firstRightSmall == layout.leftSmall + SmallPhotoLeft + SmallPhoto
        secondLeftSmall == IF layout.smallSkip = 1
                           THEN layout.leftSmall + SmallPhotoLeft + SmallShift
                           ELSE firstRightSmall
        lastRightAddFull == 0
        lastRightAddSmall == SmallPhotoLeft
        firstRight == Lerp(firstRightSmall, firstRightFull, num)
        secondLeft == Lerp(secondLeftSmall, secondLeftFull, num)
        lastRightAdd == Lerp(lastRightAddSmall, lastRightAddFull, num)
        activateFull == num * 2 >= RatioDen
        startIndex == IF activateFull THEN layout.startIndexFull
                      ELSE layout.startIndexSmall
        endIndex == IF activateFull THEN layout.endIndexFull
                    ELSE layout.endIndexSmall
        infiniteIndex ==
            IF x * RatioDen < secondLeft THEN 0
            ELSE (Max(x * RatioDen - firstRight, 0) \div layout.single) + 1
        index ==
            IF endIndex = startIndex THEN -1
            ELSE IF /\ infiniteIndex = endIndex - startIndex
                    /\ x * RatioDen < firstRight
                        + (endIndex - startIndex - 1) * layout.single
                        + lastRightAdd
                THEN infiniteIndex - 1
            ELSE IF startIndex + infiniteIndex >= endIndex
                THEN (IF clickable THEN endIndex - 1 ELSE -1)
            ELSE infiniteIndex
    IN  IF index < 0 \/ startIndex + index >= layout.itemsCount THEN -1
        ELSE index

\* ---------------------------------------------------------------- hit-testing
\* The index List::updateSelected computes for the pointer at x on layout.
selectedAt(layout, x, clickable) ==
    LET num == layout.ratio
        firstRightFull == layout.leftFull
            + (layout.startIndexFull + 1) * layout.singleFull
        secondLeftFull == firstRightFull
        firstRightSmall == layout.leftSmall + SmallPhotoLeft + SmallPhoto
        secondLeftSmall == IF layout.smallSkip = 1
                           THEN layout.leftSmall + SmallPhotoLeft + SmallShift
                           ELSE firstRightSmall
        lastRightAddFull == 0
        lastRightAddSmall == SmallPhotoLeft
        firstRight == Lerp(firstRightSmall, firstRightFull, num)
        secondLeft == Lerp(secondLeftSmall, secondLeftFull, num)
        lastRightAdd == Lerp(lastRightAddSmall, lastRightAddFull, num)
        activateFull == num * 2 >= RatioDen
        startIndex == IF activateFull THEN layout.startIndexFull
                      ELSE layout.startIndexSmall
        endIndex == IF activateFull THEN layout.endIndexFull
                    ELSE layout.endIndexSmall
        infiniteIndex ==
            IF x * RatioDen < secondLeft THEN 0
            ELSE (Max(x * RatioDen - firstRight, 0) \div layout.single) + 1
        index ==
            IF endIndex = startIndex THEN -1
            ELSE IF /\ infiniteIndex = endIndex - startIndex
                    /\ x * RatioDen < firstRight
                        + (endIndex - startIndex - 1) * layout.single
                        + lastRightAdd
                THEN infiniteIndex - 1
            ELSE IF startIndex + infiniteIndex >= endIndex
                THEN (IF clickable THEN endIndex - 1 ELSE -1)
            ELSE infiniteIndex
    IN  IF index < 0 \/ startIndex + index >= layout.itemsCount THEN -1
        ELSE startIndex + index

\* List::updateSelected; the widget's left edge is at global x = 0.
updateSelected(s) ==
    LET t == computeLayoutFields(s)
    IN  IF s.pressed >= 0 THEN s
        ELSE [t EXCEPT !.selected =
                        selectedAt(computeLayout(s), s.lastMousePosition,
                                   s.fullClickable)]

\* ---------------------------------------------------------------- painting
\* paintEvent's expandRatio is below 1 (drawSmall) / above 0 (drawFull).
drawSmall(layout) == layout.ratio * 100 < kCollapseAfterRatio * RatioDen
drawFull(layout) ==
    layout.ratio * 10000 > kExpandAfterRatio * kFrictionRatio * RatioDen

\* paintEvent's lookup(index): the 0-based item indexes of the slot
\* (-1 for nullptr).
lookup(layout, index) ==
    LET indexSmall == layout.startIndexSmall + index
        indexFull == layout.startIndexFull + index
    IN  [itemSmall |-> IF /\ drawSmall(layout)
                          /\ indexSmall < layout.endIndexSmall
                          /\ indexSmall >= layout.smallSkip
                       THEN indexSmall ELSE -1,
         itemFull |-> IF drawFull(layout) /\ indexFull < layout.endIndexFull
                      THEN indexFull ELSE -1]
Present(single) == single.itemSmall >= 0 \/ single.itemFull >= 0

\* The slots paintEvent's enumerate() hands to paintGradient and paintOther:
\* every present slot from first up, and the skipped slot before first when
\* slot first is present.
PaintedSlots(layout) ==
    LET count == Max(layout.endIndexFull - layout.startIndexFull,
                     layout.endIndexSmall - layout.startIndexSmall)
        first == layout.smallSkip - layout.startIndexSmall
    IN  {i \in first..(count - 1) : Present(lookup(layout, i))}
        \cup {i \in {first - 1} :
                /\ i >= 0
                /\ first < count
                /\ Present(lookup(layout, first))
                /\ Present(lookup(layout, i))}

\* List::paintEvent: validateName on every painted itemFull,
\* validateThumbnail on every painted itemSmall and itemFull.
paintEvent(s) ==
    LET t == computeLayoutFields(s)
        layout == computeLayout(s)
        slots == {lookup(layout, i) : i \in PaintedSlots(layout)}
        named == {single.itemFull : single \in slots} \ {-1}
        shown == named \cup ({single.itemSmall : single \in slots} \ {-1})
    IN  [t EXCEPT !.items =
            [k \in 1..Len(t.items) |->
                [t.items[k] EXCEPT
                    !.subscribed = @ \/ (k - 1) \in shown,
                    !.nameCache = @ \/ (k - 1) \in named]]]

\* ---------------------------------------------------------------- pointer
\* wheelEvent taking the unclamped target as the new offset.
wheelEventUnclamped(s, angleX, pixelX) ==
    LET horizontal == angleX # 0
        delta == (IF RightToLeft THEN -1 ELSE 1)
                    * (IF pixelX # 0 THEN pixelX ELSE angleX)
        now == s.scrollLeft
        used == now - delta
        scrolled == [requestExpanded(s, TRUE) EXCEPT !.scrollLeft = used]
    IN  IF ~horizontal \/ s.state = "Small"
        THEN [s EXCEPT !.fired.ignored = TRUE]
        ELSE IF used # now
            THEN Update(checkLoadMore(updateSelected(scrolled)))
        ELSE s

\* wheelEvent requesting expansion before it knows the offset changes.
wheelEventAlwaysExpands(s, angleX, pixelX) ==
    LET horizontal == angleX # 0
        delta == (IF RightToLeft THEN -1 ELSE 1)
                    * (IF pixelX # 0 THEN pixelX ELSE angleX)
        now == s.scrollLeft
        used == now - delta
        next == Clamp(used, 0, s.scrollLeftMax)
        requested == requestExpanded(s, TRUE)
        scrolled == [requested EXCEPT !.scrollLeft = next]
    IN  IF ~horizontal \/ s.state = "Small"
        THEN [s EXCEPT !.fired.ignored = TRUE]
        ELSE IF next # now
            THEN Update(checkLoadMore(updateSelected(scrolled)))
        ELSE requested

\* List::wheelEvent; angleX = angleDelta().x(), pixelX = pixelDelta().x().
wheelEvent(s, angleX, pixelX) ==
    LET horizontal == angleX # 0
        delta == (IF RightToLeft THEN -1 ELSE 1)
                    * (IF pixelX # 0 THEN pixelX ELSE angleX)
        now == s.scrollLeft
        used == now - delta
        next == Clamp(used, 0, s.scrollLeftMax)
        scrolled == [requestExpanded(s, TRUE) EXCEPT !.scrollLeft = next]
    IN  IF ~horizontal \/ s.state = "Small"
        THEN [s EXCEPT !.fired.ignored = TRUE]
        ELSE IF next # now
            THEN Update(checkLoadMore(updateSelected(scrolled)))
        ELSE s

\* mousePressEvent without the return in State::Changing.
mousePressEventInChanging(s, button, x) ==
    LET t == IF s.state = "Small" THEN requestExpanded(s, TRUE) ELSE s
        u == updateSelected([t EXCEPT !.lastMousePosition = x])
    IN  IF button # "Left" THEN s
        ELSE [u EXCEPT !.mouseDownPosition = <<x>>, !.pressed = u.selected]

\* List::mousePressEvent
mousePressEvent(s, button, x) ==
    LET t == IF s.state = "Small" THEN requestExpanded(s, TRUE) ELSE s
        u == updateSelected([t EXCEPT !.lastMousePosition = x])
    IN  IF button # "Left" THEN s
        ELSE IF s.state = "Changing" THEN s
        ELSE [u EXCEPT !.mouseDownPosition = <<x>>, !.pressed = u.selected]

\* List::checkDragging
checkDragging(s) ==
    LET sign == IF RightToLeft THEN -1 ELSE 1
        newLeft == Clamp(sign * (s.mouseDownPosition[1] - s.lastMousePosition)
                            + s.startDraggingLeft,
                         0, s.scrollLeftMax)
    IN  IF s.dragging /\ newLeft # s.scrollLeft
        THEN Update(checkLoadMore([s EXCEPT !.scrollLeft = newLeft]))
        ELSE s

\* (a - b).manhattanLength(), the pointer moving along x only.
ManhattanLength(a, b) == IF a >= b THEN a - b ELSE b - a

\* List::mouseMoveEvent
mouseMoveEvent(s, x) ==
    LET t == updateSelected([s EXCEPT !.lastMousePosition = x])
        start == /\ ~t.dragging
                 /\ t.mouseDownPosition # NoPosition
                 /\ t.state = "Full"
                 /\ ManhattanLength(t.lastMousePosition, t.mouseDownPosition[1])
                        >= StartDragDistance
    IN  checkDragging(IF start
                      THEN [t EXCEPT !.dragging = TRUE,
                                     !.startDraggingLeft = t.scrollLeft]
                      ELSE t)

\* List::finishDragging, when _dragging is set.
finishDragging(s) ==
    updateSelected([checkDragging(s) EXCEPT !.dragging = FALSE])

\* mouseReleaseEvent going on to the click after finishing a drag.
mouseReleaseEventClicksAfterDrag(s, x) ==
    LET wasPressed == s.pressed
        t == [s EXCEPT !.lastMousePosition = x, !.pressed = -1]
        u == IF t.dragging THEN finishDragging(t) ELSE updateSelected(t)
        done ==
            IF u.selected # wasPressed THEN u
            ELSE IF ~u.expanded THEN requestExpanded(u, TRUE)
            ELSE IF u.selected >= 0 /\ u.selected < Len(u.items)
                THEN FireClick(u, u.items[u.selected + 1].element.id)
            ELSE u
    IN  [done EXCEPT !.mouseDownPosition = NoPosition]

\* List::mouseReleaseEvent; _selected < _data.items.size() compares unsigned.
mouseReleaseEvent(s, x) ==
    LET wasPressed == s.pressed
        t == [s EXCEPT !.lastMousePosition = x, !.pressed = -1]
        u == updateSelected(t)
        done ==
            IF t.dragging THEN finishDragging(t)
            ELSE IF u.selected # wasPressed THEN u
            ELSE IF ~u.expanded THEN requestExpanded(u, TRUE)
            ELSE IF u.selected >= 0 /\ u.selected < Len(u.items)
                THEN FireClick(u, u.items[u.selected + 1].element.id)
            ELSE u
    IN  [done EXCEPT !.mouseDownPosition = NoPosition]

\* ---------------------------------------------------------------- menu
\* rect().contains(mapFromGlobal(globalPosition)), for the x coordinate.
InsideRect(s, x) == 0 <= x /\ x < s.width

\* updateAfterMenuDestroyed, connected to the menu's destroyed signal:
\* cursor is QCursor::pos() at that moment.
menuDestroyed(s, cursor) ==
    LET t == [s EXCEPT !.menu = FALSE]
    IN  IF InsideRect(t, cursor)
        THEN updateSelected([t EXCEPT !.lastMousePosition = cursor])
        ELSE t

\* The outcome of the vector read at an index that is not below its size
\* that ends the process.
Aborted == -1

\* List::contextMenuEvent. read is the outcome of
\* _data.items[_selected].element.id when _selected is not below the size of
\* _data.items; filled tells whether a subscriber of _showMenuRequests added
\* an action to the menu; cursor is QCursor::pos() if the menu that was
\* still shown is destroyed by _menu = nullptr.
contextMenuEvent(s, reason, x, read, filled, cursor) ==
    LET a == IF s.menu THEN menuDestroyed(s, cursor) ELSE s
        b == IF reason = "Mouse"
             THEN updateSelected([a EXCEPT !.lastMousePosition = x])
             ELSE a
        inRange == b.selected < Len(b.items)
    IN  IF b.selected < 0 \/ Len(b.items) = 0 \/ ~b.expanded THEN b
        ELSE IF inRange
            THEN [FireShowMenu(b, b.items[b.selected + 1].element.id)
                    EXCEPT !.menu = filled]
        ELSE IF read = Aborted THEN b
        ELSE [FireShowMenu(b, read) EXCEPT !.menu = filled]

\* A tick of _expandedAnimation whose callback does not check for the full
\* state.
expandedAnimationTickNoCheck(s, v) ==
    LET target == IF s.expanded THEN AnimSteps ELSE 0
        t == [s EXCEPT !.expandedAnimation =
                        IF v = target THEN NotAnimating
                        ELSE [animating |-> TRUE, value |-> v]]
    IN  [Update(t) EXCEPT !.fired.collapsedGeometryChanged = @ + 1]

\* ---------------------------------------------------------------- ticks
\* A tick of _expandedAnimation: the value moves towards the target, the
\* animation stops on reaching it, then the callback given to start() runs.
expandedAnimationTick(s, v) ==
    LET target == IF s.expanded THEN AnimSteps ELSE 0
        t == [s EXCEPT !.expandedAnimation =
                        IF v = target THEN NotAnimating
                        ELSE [animating |-> TRUE, value |-> v]]
    IN  [Update(checkForFullState(t)) EXCEPT
            !.fired.collapsedGeometryChanged = @ + 1]

\* The values a tick can reach from the running value.
TickValues(a, target) ==
    IF a.value < target THEN (a.value + 1)..target
    ELSE IF a.value > target THEN target..(a.value - 1)
    ELSE {target}

\* A tick of _expandCatchUpAnimation (runs from 0 to 1).
expandCatchUpAnimationTick(s, v) ==
    LET t == [s EXCEPT !.expandCatchUpAnimation =
                        IF v = AnimSteps THEN NotAnimating
                        ELSE [animating |-> TRUE, value |-> v]]
    IN  checkForFullState(Update(t))

\* List::setLayoutConstraints (the full geometry's width)
setLayoutConstraints(s, w) ==
    Update(updateGeometry([s EXCEPT !.geometryFull = w]))

\* ---------------------------------------------------------------- actions
\* The state after List::List with an empty producer: resize(0, 0).
\* The widget as List::List leaves it, for the style's fullClickable.
Constructed(clickable) ==
    /\ content = <<>>
    /\ items = <<>>
    /\ empty = TRUE
    /\ width = 0
    /\ geometryFull = 0
    /\ scrollLeft = 0
    /\ scrollLeftMax = 0
    /\ state = "Small"
    /\ expanded = FALSE
    /\ lastRatio = 0
    /\ lastExpandedHeight = 0
    /\ expandIgnored = FALSE
    /\ expandedAnimation = NotAnimating
    /\ expandCatchUpAnimation = NotAnimating
    /\ selected = -1
    /\ pressed = -1
    /\ dragging = FALSE
    /\ startDraggingLeft = 0
    /\ mouseDownPosition = NoPosition
    /\ lastMousePosition = 0
    /\ fired = NoEvents
    /\ delivered = <<>>
    /\ fullClickable = clickable
    /\ menu = FALSE

Init == Constructed(FullClickable)

ShowContent(elements) ==
    /\ Commit("showContent", showContent(Cur, elements))
    /\ delivered' = <<elements>>

SetLayoutConstraints(w) ==
    /\ Commit("setLayoutConstraints", setLayoutConstraints(Cur, w))
    /\ UNCHANGED delivered

SetExpandedHeight(height, momentum) ==
    /\ Commit("setExpandedHeight", setExpandedHeight(Cur, height, momentum))
    /\ UNCHANGED delivered

PaintEvent ==
    /\ Commit("paintEvent", paintEvent(Cur))
    /\ UNCHANGED delivered

WheelEvent(angleX, pixelX) ==
    /\ Commit("wheelEvent", wheelEvent(Cur, angleX, pixelX))
    /\ UNCHANGED delivered

MousePressEvent(button, x) ==
    /\ Commit("mousePressEvent", mousePressEvent(Cur, button, x))
    /\ UNCHANGED delivered

MouseMoveEvent(x) ==
    /\ Commit("mouseMoveEvent", mouseMoveEvent(Cur, x))
    /\ UNCHANGED delivered

MouseReleaseEvent(x) ==
    /\ Commit("mouseReleaseEvent", mouseReleaseEvent(Cur, x))
    /\ UNCHANGED delivered

ExpandedAnimationTick ==
    /\ expandedAnimation.animating
    /\ \E v \in TickValues(expandedAnimation,
                           IF expanded THEN AnimSteps ELSE 0) :
            Commit("expandedAnimationTick", expandedAnimationTick(Cur, v))
    /\ UNCHANGED delivered

ExpandCatchUpAnimationTick ==
    /\ expandCatchUpAnimation.animating
    /\ \E v \in TickValues(expandCatchUpAnimation, AnimSteps) :
            Commit("expandCatchUpAnimationTick", expandCatchUpAnimationTick(Cur, v))
    /\ UNCHANGED delivered

\* The values an out-of-range read of an item's id may yield.
UndefinedReads == {Aborted} \cup 0..2

ContextMenuEvent(reason, x) ==
    /\ \E read \in UndefinedReads : \E filled \in BOOLEAN :
       \E cursor \in {-1, x} :
            Commit("contextMenuEvent",
                   contextMenuEvent(Cur, reason, x, read, filled, cursor))
    /\ UNCHANGED delivered

\* The popup menu is closed and destroyed, with the cursor inside the widget
\* at x or outside of it.
MenuDestroyed(x) ==
    /\ menu
    /\ \E cursor \in {-1, x} :
            Commit("menuDestroyed", menuDestroyed(Cur, cursor))
    /\ UNCHANGED delivered

\* ---------------------------------------------------------------- inputs
Element(id, thumbnail, name, count, unreadCount, skipSmall) ==
    [id |-> id, thumbnail |-> thumbnail, name |-> name, count |-> count,
     unreadCount |-> unreadCount, skipSmall |-> skipSmall]

ElementA == Element(1, "t1", "a", 1, 1, FALSE)
ElementB == Element(2, "t2", "b", 1, 0, FALSE)
ElementC == Element(3, "t3", "c", 1, 1, FALSE)
ElementD == Element(4, "t4", "d", 1, 0, FALSE)

\* ---------------------------------------------------------------- scrolling
\* Content of zero, two and three items in a viewport that is narrower than
\* three items, expanded to the full height, scrolled by the wheel and by
\* dragging.
ScrollSnapshots ==
    {<<>>, <<ElementA, ElementB>>, <<ElementA, ElementB, ElementC>>}
\* The width of the full geometry: two items and a part of the third.
ScrollWidths == {FullLeft + 2 * (FullPhotoLeft * 2 + FullPhoto) + 1}
ScrollHeights == {FullHeight}
ScrollWheelDeltas == {-FullPhoto, FullPhoto}
ScrollMoveXs == {1}
ScrollPressXs == {1 + StartDragDistance}

Next ==
    \/ \E c \in ScrollSnapshots : ShowContent(c)
    \/ \E w \in ScrollWidths : SetLayoutConstraints(w)
    \/ \E h \in ScrollHeights : SetExpandedHeight(h, FALSE)
    \/ \E d \in ScrollWheelDeltas : WheelEvent(d, 0)
    \/ \E x \in ScrollPressXs : MousePressEvent("Left", x)
    \/ \E x \in ScrollMoveXs : MouseMoveEvent(x)
    \/ \E x \in ScrollMoveXs : MouseReleaseEvent(x)

Spec == Init /\ [][Next]_vars

\* max(0, fullLeft + itemCount * fullItemWidth - viewportWidth)
ScrollMaxFor(count, w) ==
    Max(0, FullLeft + count * (FullPhotoLeft * 2 + FullPhoto) - w)

\* C1: in every reachable state the scroll offset lies within
\* [0, scrollLeftMax].
C1_ScrollWithinBounds == 0 <= scrollLeft /\ scrollLeft <= scrollLeftMax

\* C1 witness: a wheel event has scrolled the strip to its right bound
\* while a drag that moved it before is still in progress.
C1_Witness ==
    /\ fired.handler = "wheelEvent"
    /\ dragging
    /\ startDraggingLeft # scrollLeft
    /\ scrollLeft > 0
    /\ scrollLeft = scrollLeftMax

\* C2: every step that changes the item count or the viewport width leaves
\* the stored maximum equal to max(0, fullLeft + itemCount * fullItemWidth
\* - viewportWidth) and the offset within [0, that maximum].
C2_ScrollMaxRecomputed ==
    [][(Len(items') # Len(items) \/ width' # width)
        => /\ scrollLeftMax' = ScrollMaxFor(Len(items'), width')
           /\ 0 <= scrollLeft'
           /\ scrollLeft' <= ScrollMaxFor(Len(items'), width')]_vars

\* C2, away from the empty snapshot: the same for every step that leaves
\* the list non-empty or changes the width.
C2_ScrollMaxRecomputedNonEmpty ==
    [][((Len(items') # Len(items) /\ items' # <<>>) \/ width' # width)
        => /\ scrollLeftMax' = ScrollMaxFor(Len(items'), width')
           /\ 0 <= scrollLeft'
           /\ scrollLeft' <= ScrollMaxFor(Len(items'), width')]_vars

\* ---------------------------------------------------------------- item store
\* Snapshots that drop, reorder and re-add items and change the thumbnail or
\* the name of a kept item, painted in the compact and the full layout.
ElementA2 == [ElementA EXCEPT !.thumbnail = "t1x"]
ElementA3 == [ElementA EXCEPT !.name = "ax"]
ItemSnapshots ==
    {<<>>,
     <<ElementA, ElementB, ElementC>>,
     <<ElementA, ElementC>>,
     <<ElementA2, ElementC>>,
     <<ElementC, ElementA3>>}
ItemWidths == {FullLeft + 3 * (FullPhotoLeft * 2 + FullPhoto)}
ItemHeights == {0, FullHeight}

NextItems ==
    \/ \E c \in ItemSnapshots : ShowContent(c)
    \/ \E w \in ItemWidths : SetLayoutConstraints(w)
    \/ \E h \in ItemHeights : SetExpandedHeight(h, FALSE)
    \/ PaintEvent

SpecItems == Init /\ [][NextItems]_vars

IdsOf(elements) == [k \in 1..Len(elements) |-> elements[k].id]
ItemIds == [k \in 1..Len(items) |-> items[k].element.id]

\* C3: once a snapshot was delivered, the ids of the stored items are, in
\* order, the ids of the snapshot delivered last.
C3_ItemsFollowSnapshot ==
    delivered # <<>> => ItemIds = IdsOf(delivered[1])

\* C4: a showContent call with the snapshot that the previous call was given
\* changes neither the items (list, subscribed flags, name caches) nor the
\* scroll state nor the empty flag, and does not call updateGeometry.
C4_IdenticalSnapshotIsNoOp ==
    [][(fired'.handler = "showContent" /\ delivered' = delivered)
        => /\ items' = items
           /\ scrollLeft' = scrollLeft
           /\ scrollLeftMax' = scrollLeftMax
           /\ empty' = empty
           /\ fired'.updateGeometry = 0]_vars

\* C4 witness: the snapshot shown and painted was delivered again, and the
\* call returned at once (no repaint asked) with the caches in place.
C4_Witness ==
    /\ fired.handler = "showContent"
    /\ ~fired.update
    /\ content # <<>>
    /\ delivered = <<content>>
    /\ Len(items) = Len(content)
    /\ \A k \in 1..Len(items) : items[k].subscribed /\ items[k].nameCache

\* What reconciling the list old against the non-empty snapshot elements
\* must give: per position the snapshot's id; for an id that was in old the
\* subscribed flag unless the thumbnail changed and the name cache unless the
\* name changed; for an id that was not, a fresh item.
Reconciled(old, elements, new) ==
    /\ Len(new) = Len(elements)
    /\ \A k \in 1..Len(elements) :
        LET was == {i \in 1..Len(old) : old[i].element.id = elements[k].id}
        IN  /\ new[k].element.id = elements[k].id
            /\ was = {} => ~new[k].subscribed /\ ~new[k].nameCache
            /\ \A i \in was :
                /\ new[k].subscribed =
                    (old[i].subscribed
                        /\ old[i].element.thumbnail = elements[k].thumbnail)
                /\ new[k].nameCache =
                    (old[i].nameCache
                        /\ old[i].element.name = elements[k].name)

\* C5: every showContent call that takes a new non-empty snapshot leaves the
\* list reconciled against the previous list.
C5_ReconcileKeepsCaches ==
    [][content' # content => Reconciled(items, content', items')]_vars

\* C5 witness: [A, B, C] painted, then [A, C] delivered: B is dropped (the
\* count changed) and A and C still have their subscription and name cache.
C5_Witness ==
    /\ fired.handler = "showContent"
    /\ fired.updateGeometry = 1
    /\ content = <<ElementA, ElementC>>
    /\ Len(items) = 2
    /\ \A k \in 1..Len(items) : items[k].subscribed /\ items[k].nameCache

\* C5 witness of an invalidation: the snapshot changed the thumbnail of a
\* subscribed item, which lost the subscription and kept the name cache.
C5_WitnessInvalidated ==
    /\ fired.handler = "showContent"
    /\ content = <<ElementA2, ElementC>>
    /\ Len(items) = 2
    /\ ~items[1].subscribed /\ items[1].nameCache
    /\ items[2].subscribed

\* ---------------------------------------------------------------- expanding
\* Heights below, inside and above the band between the two thresholds and
\* heights out of range (clamped to 0 and to the full height), with and
\* without momentum; frames painted and animations ticking in any order; a
\* press and release on the empty strip for the manual request.
ExpandHeights == {-5, 50, 67, 70, 73, FullHeight + 5}
ExpandXs == {1}

NextExpanding ==
    \/ \E h \in ExpandHeights : \E m \in BOOLEAN : SetExpandedHeight(h, m)
    \/ PaintEvent
    \/ \E x \in ExpandXs : MousePressEvent("Left", x)
    \/ \E x \in ExpandXs : MouseReleaseEvent(x)
    \/ ExpandedAnimationTick
    \/ ExpandCatchUpAnimationTick

SpecExpanding == Init /\ [][NextExpanding]_vars

\* C6: a frame (paintEvent, whose only request comes from updateExpanding)
\* emits an expand request iff the mode was not expanded and the ratio grew
\* to above 0.72, a collapse request iff the mode was expanded and the ratio
\* fell to below 0.68, never both, the mode follows the request, and a new
\* ratio within [0.68, 0.72] leaves the mode alone.
C6_Hysteresis ==
    [][fired'.handler = "paintEvent"
        => LET requests == fired'.toggleExpandedRequests
               expand == /\ ~expanded
                         /\ lastRatio' > lastRatio
                         /\ lastRatio' * 100 > 72 * FullHeight
               collapse == /\ expanded
                           /\ lastRatio' < lastRatio
                           /\ lastRatio' * 100 < 68 * FullHeight
           IN  /\ requests = IF expand THEN <<TRUE>>
                             ELSE IF collapse THEN <<FALSE>>
                             ELSE <<>>
               /\ expanded' = IF expand THEN TRUE
                              ELSE IF collapse THEN FALSE
                              ELSE expanded
               /\ (/\ 68 * FullHeight <= lastRatio' * 100
                   /\ lastRatio' * 100 <= 72 * FullHeight)
                    => expanded' = expanded]_vars

\* C6 witness: the frame at ratio 0.67 emitted the collapse request.
C6_Witness ==
    /\ fired.handler = "paintEvent"
    /\ fired.toggleExpandedRequests = <<FALSE>>
    /\ lastRatio = 67
    /\ ~expanded

\* C6 witness inside the band: a frame at ratio 0.70, coming down in
\* expanded mode, emitted nothing.
C6_WitnessBand ==
    /\ fired.handler = "paintEvent"
    /\ fired.toggleExpandedRequests = <<>>
    /\ lastRatio = 70
    /\ lastExpandedHeight = 70
    /\ expanded

\* C9: a step that makes the state Full ends with the accepted height at the
\* full capacity and with neither animation running.
C9_FullOnlyAtCapacity ==
    [][(state # "Full" /\ state' = "Full")
        => /\ lastExpandedHeight' = FullHeight
           /\ ~expandCatchUpAnimation'.animating
           /\ ~expandedAnimation'.animating]_vars

\* C9 witness: the last tick of the expand/collapse animation made the state
\* Full (setState called updateGeometry).
C9_Witness ==
    /\ fired.handler = "expandedAnimationTick"
    /\ fired.updateGeometry = 1
    /\ state = "Full"

\* C10 as claimed: from Small with accepted height 0, a step that accepts a
\* nonzero height makes the state Changing, and no step goes from Small to
\* Full.
C10_CompactToTransitioning ==
    [][(state = "Small" /\ lastExpandedHeight = 0)
        => /\ lastExpandedHeight' # 0 => state' = "Changing"
           /\ state' # "Full"]_vars

\* C10 amended: from Small with accepted height 0, a step that accepts a
\* nonzero height makes the state Full when the height is the full capacity
\* and neither animation is running, and Changing in every other case.
C10_CompactLeavesByHeight ==
    [][(state = "Small" /\ lastExpandedHeight = 0 /\ lastExpandedHeight' # 0)
        => state' = IF /\ lastExpandedHeight' = FullHeight
                       /\ ~expandCatchUpAnimation'.animating
                       /\ ~expandedAnimation'.animating
                    THEN "Full" ELSE "Changing"]_vars

\* C10 witness: the height update that ended a momentum jump was accepted at
\* the full capacity and, the catch-up animation starting, made the state
\* Changing.
C10_Witness ==
    /\ fired.handler = "setExpandedHeight"
    /\ fired.updateGeometry = 1
    /\ state = "Changing"
    /\ lastExpandedHeight = FullHeight
    /\ expandCatchUpAnimation = [animating |-> TRUE, value |-> 0]

\* ---------------------------------------------------------------- pointer
\* Two items in a viewport that shows one of them; presses, moves and releases
\* on the first full slot, a drag's distance apart; heights that collapse and expand
\* the strip under the pointer, frames and animation ticks in any order.
PointerSnapshots == {<<ElementA, ElementB>>}
PointerWidths == {FullLeft + (FullPhotoLeft * 2 + FullPhoto) + 1}
PointerHeights == {50, FullHeight}
PointerPressXs == {FullLeft + 1 + StartDragDistance}
PointerMoveXs == {FullLeft + 1}
PointerReleaseXs == PointerPressXs \cup PointerMoveXs

NextPointer ==
    \/ \E c \in PointerSnapshots : ShowContent(c)
    \/ \E w \in PointerWidths : SetLayoutConstraints(w)
    \/ \E h \in PointerHeights : SetExpandedHeight(h, FALSE)
    \/ PaintEvent
    \/ \E x \in PointerPressXs : MousePressEvent("Left", x)
    \/ \E x \in PointerMoveXs : MouseMoveEvent(x)
    \/ \E x \in PointerReleaseXs : MouseReleaseEvent(x)
    \/ ExpandedAnimationTick

SpecPointer == Init /\ [][NextPointer]_vars

\* A press at x on the current state, then a release at the same x with
\* nothing in between: the events of the two handlers together.
PressRelease(x) ==
    LET p == mousePressEvent(Cur, "Left", x)
        r == mouseReleaseEvent([p EXCEPT !.fired = NoEvents], x)
    IN  [pressed |-> p.pressed,
         toggleExpandedRequests |->
            p.fired.toggleExpandedRequests \o r.fired.toggleExpandedRequests,
         clicks |-> p.fired.clicks \o r.fired.clicks]

\* No press is in progress.
PointerIdle == pressed = -1 /\ ~dragging /\ mouseDownPosition = NoPosition

\* The sequence of emitted events holds `value`.
Emits(seq, value) == \E i \in 1..Len(seq) : seq[i] = value

\* C7: a left press and a release at the same coordinate over an item emit,
\* on an expanded widget (state Full, mode expanded), one item-clicked event
\* with the pressed item's id, and on a compact widget (state Small, mode not
\* expanded) an expand request and no item-clicked event.
C7_PressReleaseClicksOrExpands ==
    \A x \in PointerPressXs :
        LET pr == PressRelease(x)
        IN  (PointerIdle /\ pr.pressed >= 0) =>
                /\ (state = "Full" /\ expanded) =>
                        pr.clicks = <<items[pr.pressed + 1].element.id>>
                /\ (state = "Small" /\ ~expanded) =>
                        /\ Emits(pr.toggleExpandedRequests, TRUE)
                        /\ pr.clicks = <<>>

\* C7, the part the code keeps: the click on an expanded widget, and the
\* expand request on a compact one.
C7_PressReleaseKept ==
    \A x \in PointerPressXs :
        LET pr == PressRelease(x)
        IN  (PointerIdle /\ pr.pressed >= 0) =>
                /\ (state = "Full" /\ expanded) =>
                        pr.clicks = <<items[pr.pressed + 1].element.id>>
                /\ (state = "Small" /\ ~expanded) =>
                        Emits(pr.toggleExpandedRequests, TRUE)

\* The compact press/release pair really happens: a release that follows a
\* press on a compact widget and emits an item-clicked event.
C7_WitnessCompactClick ==
    /\ fired.handler = "mouseReleaseEvent"
    /\ state = "Small"
    /\ fired.clicks # <<>>

\* The item under the last pointer position in the current layout.
HitTest ==
    selectedAt(computeLayout(Cur), lastMousePosition, fullClickable)

\* The release step that ends a drag in progress.
DragRelease == fired'.handler = "mouseReleaseEvent" /\ dragging

\* The drag flag, the press anchor and the pressed index are cleared.
DragCleared == ~dragging /\ mouseDownPosition = NoPosition /\ pressed = -1

\* A release leaves the selection at the result of the hit-test.
ReleaseHitTests ==
    fired.handler = "mouseReleaseEvent" => selected = HitTest

\* C8: a release that ends a drag in progress emits no item-clicked event and
\* no expand request, clears the dragging flag, the press anchor and the
\* pressed index, and leaves the selection at the hit-test's result.
C8_DragReleaseNeverClicksOrExpands ==
    /\ [][DragRelease =>
            /\ fired'.clicks = <<>>
            /\ ~Emits(fired'.toggleExpandedRequests, TRUE)
            /\ DragCleared']_vars
    /\ []ReleaseHitTests

\* C8 with the expand request the hit-test's layout makes: a release that
\* ends a drag in progress emits no item-clicked event, emits an expand
\* request exactly when the mode was not expanded and the layout of the
\* re-run hit-test finds the ratio risen to above 0.72, clears the dragging
\* flag, the press anchor and the pressed index, and leaves the selection at
\* the hit-test's result.
C8_DragReleaseNeverClicks ==
    /\ [][DragRelease =>
            /\ fired'.clicks = <<>>
            /\ Emits(fired'.toggleExpandedRequests, TRUE)
                <=> (/\ ~expanded
                     /\ lastRatio' > lastRatio
                     /\ lastRatio' * 100 > kExpandAfterRatio * FullHeight)
            /\ DragCleared']_vars
    /\ []ReleaseHitTests

\* C8 witness: a drag that scrolled the list has just been released over the
\* item it was pressed on, in expanded mode.
C8_Witness ==
    /\ fired.handler = "mouseReleaseEvent"
    /\ scrollLeft > 0
    /\ startDraggingLeft # scrollLeft
    /\ DragCleared
    /\ expanded
    /\ selected >= 0

\* ---------------------------------------------------------------- height
\* While momentum updates are ignored the accepted height is 0, so an update
\* to height 0 from a positive height is never one of the ignored ones.
IgnoredOnlyAtZero == expandIgnored => lastExpandedHeight = 0

\* C11: a height update that brings the accepted height from positive to 0
\* (never ignored, with or without momentum) leaves the state Small and the
\* catch-up animation stopped, and leaves the expand/collapse animation and
\* the expanded mode as they were.
C11_HeightBackToZero ==
    /\ [][(/\ fired'.handler = "setExpandedHeight"
           /\ lastExpandedHeight > 0
           /\ lastExpandedHeight' = 0)
           => /\ state' = "Small"
              /\ ~expandCatchUpAnimation'.animating
              /\ expandedAnimation' = expandedAnimation
              /\ expanded' = expanded]_vars
    /\ []IgnoredOnlyAtZero

\* C11 witness: a height update has just returned the strip to Small (the
\* state changed, so the geometry was updated) while the expand animation
\* is still running in expanded mode.
C11_Witness ==
    /\ fired.handler = "setExpandedHeight"
    /\ fired.updateGeometry > 0
    /\ state = "Small"
    /\ lastExpandedHeight = 0
    /\ expanded
    /\ expandedAnimation.animating
    /\ ~expandCatchUpAnimation.animating

\* What setExpandedHeight(h, m) does to the current state when it is an
\* update the momentum rule speaks of.
MomentumRule(h, m) ==
    LET height == Clamp(h, 0, FullHeight)
        r == setExpandedHeight(Cur, h, m)
        catchUp == /\ ~m
                   /\ expandIgnored
                   /\ height > 0
    IN  /\ (m /\ (expandIgnored \/ (lastExpandedHeight = 0 /\ height > 0)))
            => /\ r.expandIgnored
               /\ r.lastExpandedHeight = 0
               /\ r.state = "Small"
               /\ r.lastExpandedHeight = lastExpandedHeight
               /\ r.state = state
               /\ r.expandCatchUpAnimation = expandCatchUpAnimation
        /\ catchUp
            => /\ ~r.expandIgnored
               /\ r.lastExpandedHeight = height
               /\ r.expandCatchUpAnimation = [animating |-> TRUE, value |-> 0]
        /\ ~catchUp
            => \/ r.expandCatchUpAnimation = expandCatchUpAnimation
               \/ ~r.expandCatchUpAnimation.animating

\* C12: a momentum update that jumps from accepted height 0 to a positive
\* height is ignored, and so is every momentum update while the ignore flag
\* is set; a non-momentum update with positive height arriving then is
\* accepted, clears the flag and starts the catch-up animation at 0; the
\* catch-up animation starts in no other step, so it starts from accepted
\* height 0.
C12_MomentumJumpIgnored ==
    /\ [](\A h \in ExpandHeights : \A m \in BOOLEAN : MomentumRule(h, m))
    /\ [][(/\ expandCatchUpAnimation'.animating
           /\ expandCatchUpAnimation' # expandCatchUpAnimation
           /\ fired'.handler # "expandCatchUpAnimationTick")
           => /\ fired'.handler = "setExpandedHeight"
              /\ expandIgnored
              /\ ~expandIgnored'
              /\ lastExpandedHeight = 0
              /\ lastExpandedHeight' > 0
              /\ expandCatchUpAnimation' = [animating |-> TRUE, value |-> 0]
          ]_vars

\* C12 witness: the non-momentum update after an ignored momentum jump has
\* just been accepted and the catch-up animation stands at its start.
C12_Witness ==
    /\ fired.handler = "setExpandedHeight"
    /\ ~expandIgnored
    /\ lastExpandedHeight > 0
    /\ expandCatchUpAnimation = [animating |-> TRUE, value |-> 0]

\* C13: the observed expansion ratio (_lastRatio, over the denominator
\* FullHeight), the ratio the next layout will observe (accepted height
\* times the catch-up multiplier, over FullHeight) and the blended ratio of
\* the layout (over RatioDen) all lie in [0, 1], whatever heights arrived.
C13_RatioInUnitInterval ==
    /\ 0 <= lastRatio /\ lastRatio <= FullHeight
    /\ 0 <= computeLayoutFields(Cur).lastRatio
    /\ computeLayoutFields(Cur).lastRatio <= FullHeight
    /\ 0 <= computeLayout(Cur).ratio
    /\ computeLayout(Cur).ratio <= RatioDen

\* C13 witness: a frame painted at ratio exactly 1 in expanded mode with the
\* expand animation finished, which the over-capacity height FullHeight + 5
\* brought about; the blended ratio is 1 too.
C13_Witness ==
    /\ fired.handler = "paintEvent"
    /\ lastRatio = FullHeight
    /\ lastExpandedHeight = FullHeight
    /\ expanded
    /\ ~expandedAnimation.animating
    /\ computeLayout(Cur).ratio = RatioDen

\* ---------------------------------------------------------------- load more
\* Three items in a viewport half an item wide, so that the scroll range
\* lies on both sides of the load-more threshold; horizontal wheel
\* scrolling, wheel events without a horizontal part, and drags.
LoadSnapshots == {<<ElementA, ElementB, ElementC>>}
LoadWidths == {FullPhoto}
LoadHeights == {FullHeight}
LoadWheelDeltas == {-FullPhoto - 1, FullPhoto + 1}
LoadPressXs == {1 + StartDragDistance}
LoadMoveXs == {1}

NextLoadMore ==
    \/ \E c \in LoadSnapshots : ShowContent(c)
    \/ \E w \in LoadWidths : SetLayoutConstraints(w)
    \/ \E h \in LoadHeights : SetExpandedHeight(h, FALSE)
    \/ \E d \in LoadWheelDeltas : WheelEvent(d, 0)
    \/ \E d \in LoadWheelDeltas : WheelEvent(0, d)
    \/ \E x \in LoadPressXs : MousePressEvent("Left", x)
    \/ \E x \in LoadMoveXs : MouseMoveEvent(x)
    \/ \E x \in LoadMoveXs : MouseReleaseEvent(x)

SpecLoadMore == Init /\ [][NextLoadMore]_vars

\* The load-more condition in the fields s.
WithinPreload(s) == s.scrollLeftMax - s.scrollLeft < 2 * s.width

\* One check in the current state, a second check right after it, and the
\* check at the end of a scroll-bounds recomputation.
LoadMoreChecks ==
    LET once == checkLoadMore(Cur)
        twice == checkLoadMore(once)
        bounds == updateScrollMax(Cur)
    IN  /\ once.fired.loadMoreRequests = IF WithinPreload(Cur) THEN 1 ELSE 0
        /\ twice.fired.loadMoreRequests = IF WithinPreload(Cur) THEN 2 ELSE 0
        /\ bounds.fired.loadMoreRequests =
                IF WithinPreload(bounds) THEN 1 ELSE 0

\* C14: a check emits one load-more request when
\* scrollLeftMax - scrollLeft < 2 * width and none otherwise, a second check
\* in the unchanged state emits a second request, and so do the checks after
\* a scroll-bounds recomputation, after a wheel scroll that changed the
\* offset and after a drag move that changed the offset.
C14_LoadMoreLevelTriggered ==
    /\ []LoadMoreChecks
    /\ [][(/\ fired'.handler \in {"wheelEvent", "mouseMoveEvent"}
           /\ scrollLeft' # scrollLeft)
           => fired'.loadMoreRequests =
                IF scrollLeftMax' - scrollLeft' < 2 * width' THEN 1 ELSE 0
          ]_vars

\* C14 witness: a wheel scroll has just moved the offset into the threshold
\* and emitted one request, in a list whose start lies outside it.
C14_Witness ==
    /\ fired.handler = "wheelEvent"
    /\ fired.loadMoreRequests = 1
    /\ scrollLeft > 0
    /\ scrollLeftMax >= 2 * width
    /\ width > 0

\* A drag move changed the offset outside the threshold: no request.
C14_WitnessNone ==
    /\ fired.handler = "mouseMoveEvent"
    /\ dragging
    /\ scrollLeft # startDraggingLeft
    /\ scrollLeftMax - scrollLeft >= 2 * width
    /\ fired.loadMoreRequests = 0

\* ---------------------------------------------------------------- hit test
\* Two items spread over a wider viewport, or five in a viewport three items
\* wide; the strip fully expanded, scrolled by the wheel, the pointer moved
\* over the third slot and to the left of the strip; either style.
ElementE == Element(5, "t5", "e", 1, 1, FALSE)
HitSnapshots ==
    {<<ElementA, ElementB>>,
     <<ElementA, ElementB, ElementC, ElementD, ElementE>>}
HitWidths == {FullLeft + 3 * (FullPhotoLeft * 2 + FullPhoto)}
HitHeights == {FullHeight}
HitWheelDeltas == {-FullPhoto - 1, FullPhoto + 1}
HitMoveXs == {FullLeft - 5, FullLeft + 2 * (FullPhotoLeft * 2 + FullPhoto) + 1}
HitMargin == 5

InitHitTest == \E clickable \in BOOLEAN : Constructed(clickable)

NextHitTest ==
    \/ \E c \in HitSnapshots : ShowContent(c)
    \/ \E w \in HitWidths : SetLayoutConstraints(w)
    \/ \E h \in HitHeights : SetExpandedHeight(h, FALSE)
    \/ \E d \in HitWheelDeltas : WheelEvent(d, 0)
    \/ \E x \in HitMoveXs : MouseMoveEvent(x)
    \/ ExpandedAnimationTick

SpecHitTest == InitHitTest /\ [][NextHitTest]_vars

\* The pointer positions tried in every state: the viewport and a margin on
\* both sides of it.
HitXs == (0 - HitMargin)..(width + HitMargin)

\* The selection a hit-test leaves with the pointer at x.
HitTestAt(x) == updateSelected([Cur EXCEPT !.lastMousePosition = x]).selected

\* The blended ratio of the current layout is exactly 1.
FullyExpanded == computeLayout(Cur).ratio = RatioDen

\* C15: in the fully expanded layout with no press active, a pointer inside
\* the viewport in the span [leftFull + j * pitch, leftFull + (j + 1) * pitch)
\* of item j selects j, and a pointer left of the first visible slot selects
\* the first visible item.
C15_HitTestMatchesSlots ==
    (pressed = -1 /\ FullyExpanded) =>
        LET layout == computeLayout(Cur)
            slotLeft(j) == layout.leftFull + j * layout.singleFull
        IN  \A x \in HitXs :
                /\ \A j \in 0..(Len(items) - 1) :
                        (/\ 0 <= x
                         /\ x < width
                         /\ slotLeft(j) <= x
                         /\ x < slotLeft(j + 1))
                            => HitTestAt(x) = j
                /\ (/\ layout.startIndexFull < layout.endIndexFull
                    /\ x < slotLeft(layout.startIndexFull))
                        => HitTestAt(x) = layout.startIndexFull

\* C15 witness: five items fully expanded and unscrolled, the pointer moved
\* to x = L + 2P + 1: the third item is selected.
C15_Witness ==
    /\ fired.handler = "mouseMoveEvent"
    /\ pressed = -1
    /\ FullyExpanded
    /\ Len(items) = 5
    /\ scrollLeft = 0
    /\ lastMousePosition = FullLeft + 2 * (FullPhotoLeft * 2 + FullPhoto) + 1
    /\ selected = 2

\* The same with the list scrolled: the pointer over a later item.
C15_WitnessScrolled ==
    /\ fired.handler = "mouseMoveEvent"
    /\ pressed = -1
    /\ FullyExpanded
    /\ scrollLeft > FullLeft + FullPhotoLeft * 2 + FullPhoto
    /\ selected >= 3

\* The window and the slot edges the hit-test works with in `layout`, the
\* edges scaled by RatioDen.
SlotGeometry(layout) ==
    LET full == layout.ratio * 2 >= RatioDen
        firstRightFull == layout.leftFull
            + (layout.startIndexFull + 1) * layout.singleFull
        firstRightSmall == layout.leftSmall + SmallPhotoLeft + SmallPhoto
        secondLeftSmall == IF layout.smallSkip = 1
                           THEN layout.leftSmall + SmallPhotoLeft + SmallShift
                           ELSE firstRightSmall
    IN  [startIndex |-> IF full THEN layout.startIndexFull
                        ELSE layout.startIndexSmall,
         endIndex |-> IF full THEN layout.endIndexFull
                      ELSE layout.endIndexSmall,
         firstRight |-> Lerp(firstRightSmall, firstRightFull, layout.ratio),
         secondLeft |-> Lerp(secondLeftSmall, firstRightFull, layout.ratio),
         lastRightAdd |-> Lerp(SmallPhotoLeft, 0, layout.ratio)]

\* The pointer at x is past the last visible slot and its trailing allowance.
BeyondLastSlot(layout, x) ==
    LET g == SlotGeometry(layout)
    IN  /\ g.startIndex < g.endIndex
        /\ x * RatioDen >= g.secondLeft
        /\ x * RatioDen >= g.firstRight
                + (g.endIndex - g.startIndex - 1) * layout.single
                + g.lastRightAdd

\* C16: a hit-test with no press active selects -1 or an index in
\* [0, itemCount); with an empty visible window it selects -1; past the last
\* visible slot it selects -1, or the last visible item when the style's
\* fullClickable is set.
C16_HitTestInRange ==
    pressed = -1 =>
        LET layout == computeLayout(Cur)
            g == SlotGeometry(layout)
        IN  \A x \in HitXs :
                /\ HitTestAt(x) = -1
                    \/ (0 <= HitTestAt(x) /\ HitTestAt(x) < Len(items))
                /\ g.startIndex = g.endIndex => HitTestAt(x) = -1
                /\ BeyondLastSlot(layout, x) =>
                        HitTestAt(x) = IF fullClickable THEN g.endIndex - 1
                                       ELSE -1

\* C16, the part the code keeps: the range, the empty window, and the
\* trailing region when fullClickable is not set or the visible window
\* starts at the first item.
C16_HitTestKept ==
    pressed = -1 =>
        LET layout == computeLayout(Cur)
            g == SlotGeometry(layout)
        IN  \A x \in HitXs :
                /\ HitTestAt(x) = -1
                    \/ (0 <= HitTestAt(x) /\ HitTestAt(x) < Len(items))
                /\ g.startIndex = g.endIndex => HitTestAt(x) = -1
                /\ (BeyondLastSlot(layout, x)
                    /\ (~fullClickable \/ g.startIndex = 0)) =>
                        HitTestAt(x) = IF fullClickable THEN g.endIndex - 1
                                       ELSE -1

\* A wheel event (angleX, pixelX) on the current state that is not
\* horizontal, arrives in state Small, or whose clamped target is the current
\* offset, changes nothing and emits nothing.
WheelNoOp(angleX, pixelX) ==
    LET delta == (IF RightToLeft THEN -1 ELSE 1)
                    * (IF pixelX # 0 THEN pixelX ELSE angleX)
        target == Clamp(scrollLeft - delta, 0, scrollLeftMax)
        r == wheelEvent(Cur, angleX, pixelX)
    IN  (angleX = 0 \/ state = "Small" \/ target = scrollLeft)
            => /\ r.scrollLeft = scrollLeft
               /\ r.expanded = expanded
               /\ r.selected = selected
               /\ r.state = state
               /\ r.fired.toggleExpandedRequests = <<>>
               /\ r.fired.loadMoreRequests = 0

\* C17: a wheel event that is not horizontal, arrives in state Small, or
\* whose clamped target offset is the current offset leaves the offset, the
\* expanded mode, the selection and the state unchanged and emits no expand
\* and no load-more request; a drag move whose clamped target is the current
\* offset emits no load-more request.
C17_NoOpScrollHasNoEffect ==
    /\ [](\A angleX \in LoadWheelDeltas \cup {0} :
            \A pixelX \in LoadWheelDeltas \cup {0} :
                WheelNoOp(angleX, pixelX))
    /\ [][(/\ fired'.handler = "mouseMoveEvent"
           /\ dragging'
           /\ scrollLeft' = scrollLeft)
           => fired'.loadMoreRequests = 0]_vars

\* C17 witness: a horizontal wheel event against the end of a scrolled list
\* in state Full has just been handled and left no trace.
C17_Witness ==
    /\ fired.handler = "wheelEvent"
    /\ ~fired.ignored
    /\ ~fired.update
    /\ fired.toggleExpandedRequests = <<>>
    /\ fired.loadMoreRequests = 0
    /\ state = "Full"
    /\ scrollLeftMax > 0
    /\ scrollLeft = scrollLeftMax

\* A drag move against the start of the list, inside the load-more
\* threshold, emitted no request.
C17_WitnessDrag ==
    /\ fired.handler = "mouseMoveEvent"
    /\ dragging
    /\ scrollLeft = startDraggingLeft
    /\ scrollLeftMax - scrollLeft < 2 * width
    /\ fired.loadMoreRequests = 0

\* The buttons a press may come with.
Buttons == {"Left", "Right"}

\* C18: a press with any button at any x, in any state, leaves the expanded
\* mode, the expand/collapse animation, the scroll offset and the dragging
\* flag unchanged and emits no expand request.
C18_PressOnlyRecords ==
    \A button \in Buttons : \A x \in PointerReleaseXs :
        LET r == mousePressEvent(Cur, button, x)
        IN  /\ r.expanded = expanded
            /\ r.expandedAnimation = expandedAnimation
            /\ r.scrollLeft = scrollLeft
            /\ r.dragging = dragging
            /\ r.fired.toggleExpandedRequests = <<>>

\* What a press with `button` at x does to the current state.
PressEffect(button, x) ==
    LET r == mousePressEvent(Cur, button, x)
        accepted == button = "Left" /\ state # "Changing"
    IN  /\ r.scrollLeft = scrollLeft
        /\ r.dragging = dragging
        /\ r.startDraggingLeft = startDraggingLeft
        /\ ~accepted => r = Cur
        /\ accepted =>
                /\ r.mouseDownPosition = <<x>>
                /\ r.lastMousePosition = x
                /\ r.pressed = r.selected
        /\ (accepted /\ state = "Small") =>
                /\ r.fired.toggleExpandedRequests # <<>>
                /\ r.fired.toggleExpandedRequests[1] = TRUE
                /\ r.lastRatio = lastRatio => r.expanded
        /\ (accepted /\ state = "Full" /\ r.lastRatio = lastRatio) =>
                /\ r.expanded = expanded
                /\ r.expandedAnimation = expandedAnimation
                /\ r.fired.toggleExpandedRequests = <<>>

\* C18 as the code has it: a press never changes the scroll offset or the
\* dragging flag; a press with another button or in state Changing changes
\* nothing; a left press in Small or Full records the anchor and the pressed
\* index; in Small it first requests expansion (an expand request, the
\* expanded mode set); in Full the expanded mode, the animation and the
\* requests change only when the hit-test's layout observes a new ratio.
C18_PressRecordsAndExpandsCompact ==
    \A button \in Buttons : \A x \in PointerReleaseXs : PressEffect(button, x)

\* C18 witness: a left press over an item of the compact strip has just been
\* handled: the item is pressed, the anchor recorded, expansion requested.
C18_Witness ==
    /\ fired.handler = "mousePressEvent"
    /\ state = "Small"
    /\ pressed >= 0
    /\ mouseDownPosition # NoPosition
    /\ expanded
    /\ fired.toggleExpandedRequests = <<TRUE>>

\* ---------------------------------------------------------------- windows
\* Three items, with and without the skip-first flag on the first one, in a
\* viewport narrower than them; the strip expanded and collapsed, scrolled
\* by the wheel.
ElementSelf == Element(1, "t1", "a", 1, 0, TRUE)
WindowSnapshots ==
    {<<ElementSelf, ElementB, ElementC>>, <<ElementB, ElementC, ElementD>>}
WindowWidths == {FullLeft + (FullPhotoLeft * 2 + FullPhoto)}
WindowHeights == {0, FullHeight}
WindowWheelDeltas == {-FullPhoto - 1, FullPhoto + 1}

NextWindows ==
    \/ \E c \in WindowSnapshots : ShowContent(c)
    \/ \E w \in WindowWidths : SetLayoutConstraints(w)
    \/ \E h \in WindowHeights : SetExpandedHeight(h, FALSE)
    \/ \E d \in WindowWheelDeltas : WheelEvent(d, 0)
    \/ ExpandedAnimationTick

SpecWindows == Init /\ [][NextWindows]_vars

\* The layout the current item list, width and blend give at scroll
\* offset a.
LayoutAt(a) ==
    computeLayoutConst([Cur EXCEPT !.scrollLeft = a],
                       AnimValue(expandedAnimation,
                                 IF expanded THEN AnimSteps ELSE 0))

\* The scroll offsets of the current list.
Offsets == 0..scrollLeftMax

\* The compact items paintEvent's lookup finds in a layout.
CompactItems(layout) ==
    {i \in layout.startIndexSmall..(layout.endIndexSmall - 1) :
        i >= layout.smallSkip}

\* C19: any two scroll offsets give the same compact window
\* (startIndexSmall, endIndexSmall), with or without the skip-first flag.
C19_CompactWindowIgnoresScroll ==
    \A a \in Offsets : \A b \in Offsets :
        /\ LayoutAt(a).startIndexSmall = LayoutAt(b).startIndexSmall
        /\ LayoutAt(a).endIndexSmall = LayoutAt(b).endIndexSmall

\* C19 as the code has it: endIndexSmall and the compact items painted do
\* not depend on the scroll offset; startIndexSmall is 0 without the
\* skip-first flag, and with it 0 while the first item's slot is in the full
\* window and 1 once the offset has scrolled that slot out.
C19_CompactWindowButForSkipped ==
    \A a \in Offsets :
        LET layout == LayoutAt(a)
            skipFirst == Len(items) > 1 /\ items[1].element.skipSmall
            firstScrolledOut ==
                a >= FullLeft + (FullPhotoLeft * 2 + FullPhoto)
        IN  /\ layout.endIndexSmall = LayoutAt(0).endIndexSmall
            /\ CompactItems(layout) = CompactItems(LayoutAt(0))
            /\ layout.startIndexSmall =
                    IF skipFirst /\ firstScrolledOut THEN 1 ELSE 0

\* C19 witness: a list with the skip-first flag has been scrolled by the
\* wheel past its first item: the full window starts at the second item, and
\* so does the compact one.
C19_Witness ==
    /\ fired.handler = "wheelEvent"
    /\ Len(items) > 1
    /\ items[1].element.skipSmall
    /\ scrollLeft > 0
    /\ LayoutAt(scrollLeft).startIndexFull >= 1
    /\ LayoutAt(scrollLeft).startIndexSmall = 1
    /\ LayoutAt(0).startIndexSmall = 0

\* ---------------------------------------------------------------- liveness
\* The heights of the liveness runs: none, below and above the expand
\* thresholds, and the full capacity.
FullHeights == {0, 50, 73, FullHeight}

NextFull ==
    \/ \E h \in FullHeights : \E m \in BOOLEAN : SetExpandedHeight(h, m)
    \/ PaintEvent
    \/ \E x \in ExpandXs : MousePressEvent("Left", x)
    \/ \E x \in ExpandXs : MouseReleaseEvent(x)
    \/ ExpandedAnimationTick
    \/ ExpandCatchUpAnimationTick

\* The animations are driven by the animation timer: a running animation
\* keeps ticking until it finishes.
SpecExpandingFair ==
    /\ Init /\ [][NextFull]_vars
    /\ WF_vars(ExpandedAnimationTick)
    /\ WF_vars(ExpandCatchUpAnimationTick)

\* C20: once the accepted height is the full capacity, the state becomes
\* Full unless another height is accepted first, whichever animation
\* finishes last; and the state leaves Full only in a setExpandedHeight that
\* accepts another height.
C20_EventuallyFull ==
    /\ (lastExpandedHeight = FullHeight)
            ~> (state = "Full" \/ lastExpandedHeight # FullHeight)
    /\ [][(state = "Full" /\ state' # "Full")
            => /\ fired'.handler = "setExpandedHeight"
               /\ lastExpandedHeight' # lastExpandedHeight]_vars

\* C20 witness: the catch-up animation has just finished, after the
\* expand animation, at full height, and its callback made the state Full.
C20_Witness ==
    /\ fired.handler = "expandCatchUpAnimationTick"
    /\ fired.updateGeometry = 1
    /\ lastExpandedHeight = FullHeight
    /\ expanded
    /\ ~expandedAnimation.animating
    /\ ~expandCatchUpAnimation.animating
    /\ state = "Full"

\* ---------------------------------------------------------------- state
\* C21: in every reachable state the state is Small exactly when the
\* accepted height is 0, the state Full implies the accepted height is the
\* capacity, and a set momentum-ignore flag implies the accepted height 0
\* and the state Small.
C21_StateFollowsHeight ==
    /\ FullHeight > 0
    /\ (state = "Small") <=> (lastExpandedHeight = 0)
    /\ (state = "Full") => (lastExpandedHeight = FullHeight)
    /\ expandIgnored => (lastExpandedHeight = 0 /\ state = "Small")

\* C21 witness: the expand animation, started by a press in the compact
\* state, has finished while a momentum jump is being ignored at height 0.
C21_Witness ==
    /\ fired.handler = "expandedAnimationTick"
    /\ expanded
    /\ ~expandedAnimation.animating
    /\ expandIgnored
    /\ lastExpandedHeight = 0
    /\ state = "Small"

\* ---------------------------------------------------------------- menu
\* Snapshots that shrink and empty a list of two items shown side by side at
\* the full height; presses, moves, releases and context-menu events over
\* the second slot, by mouse and by keyboard, and menus closing.
MenuSnapshots == {<<ElementA, ElementB>>, <<ElementA>>, <<>>}
MenuWidths == {FullLeft + 2 * (FullPhotoLeft * 2 + FullPhoto)}
MenuHeights == {FullHeight}
MenuXs == {FullLeft + (FullPhotoLeft * 2 + FullPhoto) + 1}
Reasons == {"Mouse", "Keyboard"}

NextMenu ==
    \/ \E c \in MenuSnapshots : ShowContent(c)
    \/ \E w \in MenuWidths : SetLayoutConstraints(w)
    \/ \E h \in MenuHeights : SetExpandedHeight(h, FALSE)
    \/ \E x \in MenuXs : MousePressEvent("Left", x)
    \/ \E x \in MenuXs : MouseMoveEvent(x)
    \/ \E x \in MenuXs : MouseReleaseEvent(x)
    \/ \E r \in Reasons : \E x \in MenuXs : ContextMenuEvent(r, x)
    \/ \E x \in MenuXs : MenuDestroyed(x)
    \/ ExpandedAnimationTick

SpecMenu == Init /\ [][NextMenu]_vars

\* The selected index is an index of _data.items.
SelectedInRange(s) == 0 <= s.selected /\ s.selected < Len(s.items)

\* C22: whenever a handler has emitted an item-clicked event or a
\* context-menu-requested event, the selected index it looked the item up
\* with is at least 0 and below the item count.
C22_LookupInRange ==
    (fired.clicks # <<>> \/ fired.showMenuRequests # <<>>)
        => SelectedInRange(Cur)

\* The part of C22 that holds: an item-clicked event carries the id of the
\* item at the selected index, which is in range; and so does the
\* context-menu-requested event of a mouse-triggered context-menu event that
\* arrives while no press is active (with no menu shown, or the cursor
\* outside when the shown menu is destroyed).
C22_LookupKept ==
    /\ fired.clicks # <<>> =>
            /\ SelectedInRange(Cur)
            /\ fired.clicks = <<items[selected + 1].element.id>>
    /\ \A x \in MenuXs : \A read \in UndefinedReads :
            LET r == contextMenuEvent(Cur, "Mouse", x, read, TRUE, -1)
            IN  (pressed = -1 /\ r.fired.showMenuRequests # <<>>) =>
                    /\ SelectedInRange(r)
                    /\ r.fired.showMenuRequests
                            = <<r.items[r.selected + 1].element.id>>

\* ---------------------------------------------------------------- descriptors
\* Snapshots that keep the ids and change the first item's unread count and
\* skip flag, reorder the items, and empty the list.
SkipSnapshots ==
    {<<>>,
     <<ElementA, ElementB, ElementC>>,
     <<ElementSelf, ElementB, ElementC>>,
     <<ElementB, ElementSelf>>,
     <<ElementA2, ElementC>>,
     <<ElementC, ElementA3>>}
SkipWidths == {FullLeft + 3 * (FullPhotoLeft * 2 + FullPhoto)}
SkipHeights == {0, FullHeight}

NextSkip ==
    \/ \E c \in SkipSnapshots : ShowContent(c)
    \/ \E w \in SkipWidths : SetLayoutConstraints(w)
    \/ \E h \in SkipHeights : SetExpandedHeight(h, FALSE)
    \/ PaintEvent

SpecSkip == Init /\ [][NextSkip]_vars

\* A non-empty snapshot was delivered last and the items were built from it.
SnapshotApplied ==
    delivered # <<>> /\ delivered[1] # <<>> /\ content = delivered[1]

\* C23: after a non-empty snapshot was applied, every stored item's element
\* (id, thumbnail, name, count, unread count, skip flag) is the snapshot's
\* element at the same position, and the layout's smallSkip is 1 exactly
\* when there are several items and the snapshot's first element has the
\* skip flag.
C23_ItemsEqualSnapshot ==
    SnapshotApplied =>
        /\ \A k \in 1..Len(items) :
                /\ k <= Len(delivered[1])
                /\ items[k].element = delivered[1][k]
        /\ computeLayout(Cur).smallSkip
                = IF Len(items) > 1 /\ delivered[1][1].skipSmall THEN 1 ELSE 0

\* The part of C23 that holds: the id, thumbnail, name, count and unread
\* count of every stored item are the snapshot's at the same position, and
\* so is the skip flag of an item that the previous list did not hold.
C23_FieldsKept ==
    /\ SnapshotApplied =>
        \A k \in 1..Len(items) :
            /\ k <= Len(delivered[1])
            /\ [items[k].element EXCEPT !.skipSmall = FALSE]
                    = [delivered[1][k] EXCEPT !.skipSmall = FALSE]
    /\ [][(fired'.handler = "showContent" /\ SnapshotApplied')
            => \A k \in 1..Len(items') :
                    (\A i \in 1..Len(items) :
                        items[i].element.id # items'[k].element.id)
                    => items'[k].element = delivered'[1][k]]_vars

====
